---- MODULE Spec2Model ----
(***************************************************************************)
(* Model of src/ver1.py: class Good, which draws a chain of tangent arcs   *)
(* (draw_arcs), filled polygons (draw_polygons) and re-seeds the chain     *)
(* (reset_image_coordinates) on one shared PIL image.                      *)
(*                                                                         *)
(* Numbers.  Python floats are modelled in fixed point:                    *)
(*   - canvas coordinates, lengths and radii are integers (canvas units);  *)
(*   - angles in radians are integers in milliradians;                     *)
(*   - cos/sin values are integers in thousandths;                         *)
(*   - caller inputs (physical units) are integers in hundredths, so the   *)
(*     repository's literals 0.5, 0.01, -0.2 are 50, 1, -20.               *)
(* pi is 355/113 where the code multiplies by math.pi.                     *)
(***************************************************************************)
EXTENDS Integers, Sequences, FiniteSets, TLC

\* ------------------------------------------------------------------------
\* Bounds of the model
\* ------------------------------------------------------------------------
\* arcs handed to draw_arcs over one session (all calls together)
MaxTotalArcs == 3
\* the same, in the sessions of SpecReplay
MaxReplayArcs == 4
\* reset_image_coordinates calls in one session
MaxResets == 1
\* draw_polygons calls in one session
MaxPolygonCalls == 1
\* points of one input polygon
MaxPoints == 3

\* ------------------------------------------------------------------------
\* Number representation
\* ------------------------------------------------------------------------
\* caller inputs are given in 1/InputDenom physical units
InputDenom == 100
\* milliradians per radian, thousandths per unit of cos/sin
Milli == 1000
\* math.pi as the fraction PiNum / PiDen
PiNum == 355
PiDen == 113
\* math.pi, pi/2 and 2*pi in milliradians
PiMilli == 3142
HalfPiMilli == 1571
TwoPiMilli == 6283

None == -1

Abs(x) == IF x < 0 THEN -x ELSE x

\* round(): Python 3 rounds a float to the nearest integer, halves to even.
\* The float is num / den with den > 0.
Round(num, den) ==
    LET q == num \div den
        r == num - q * den
    IN  IF 2 * r < den THEN q
        ELSE IF 2 * r > den THEN q + 1
        ELSE IF q % 2 = 0 THEN q ELSE q + 1

\* sin on [0, pi/2], argument in milliradians, result in thousandths
\* (the polynomial x - x^3/3! + x^5/5! - x^7/7!)
SinQuadrant(x) ==
    LET x2 == (x * x) \div Milli
        x3 == (x2 * x) \div Milli
        x5 == (x3 * x2) \div Milli
        x7 == (x5 * x2) \div Milli
    IN  x - (x3 \div 6) + (x5 \div 120) - (x7 \div 5040)

\* math.sin, argument in milliradians, result in thousandths
Sin(a) ==
    LET m == a % TwoPiMilli
    IN  IF m <= HalfPiMilli THEN SinQuadrant(m)
        ELSE IF m <= PiMilli THEN SinQuadrant(PiMilli - m)
        ELSE IF m <= PiMilli + HalfPiMilli THEN -SinQuadrant(m - PiMilli)
        ELSE -SinQuadrant(TwoPiMilli - m)

\* math.cos, argument in milliradians, result in thousandths
Cos(a) == Sin(a + HalfPiMilli)

\* atan on [0, 1]: argument in thousandths, result in milliradians
\* (pi/4 * z + z * (1 - z) * (0.2447 + 0.0663 * z))
AtanUnit(z) ==
    (7854 * z) \div 10000
    + (((z * (Milli - z)) \div Milli) * (2447 + (663 * z) \div Milli)) \div 10000

\* math.atan2(y, x), result in milliradians in (-pi, pi]
Atan2(y, x) ==
    IF x = 0 /\ y = 0 THEN 0
    ELSE
      LET ax == Abs(x)
          ay == Abs(y)
          base == IF ax >= ay
                  THEN AtanUnit((Milli * ay) \div ax)
                  ELSE HalfPiMilli - AtanUnit((Milli * ax) \div ay)
      IN  IF x >= 0
          THEN (IF y >= 0 THEN base ELSE -base)
          ELSE (IF y >= 0 THEN PiMilli - base ELSE base - PiMilli)

\* round(math.degrees(rad)), rad in milliradians
RoundDegrees(rad) == Round(rad * 180 * PiDen, PiNum * Milli)

\* (180 * l) // (math.pi * radius), for radius # 0
SpanDegrees(l, radius) == (180 * l * PiDen) \div (PiNum * radius)

\* l / radius, in milliradians, for radius # 0
TurnRad(l, radius) == (Milli * l) \div radius

\* ------------------------------------------------------------------------
\* Inputs
\* ------------------------------------------------------------------------
\* (length, signed radius) pairs a caller passes, in hundredths:
\* (0.5, 0.01), (0.5, 0.04), (0.6, -0.2) and a zero radius
ArcInputs == { <<50, 1>>, <<50, 4>>, <<60, -20>>, <<50, 0>> }

\* the arcs of SpecReplay: (0.5, 0.01) and (0.6, -0.2)
ReplayArcs == { <<50, 1>>, <<60, -20>> }

\* the non-empty lists of at most n arcs out of inputs
ArcLists(inputs, n) == UNION { [1..k -> inputs] : k \in 1..n }

\* polygon points a caller passes, in hundredths: (0.3, 1.1), (0.8, 0.2) and
\* (1.3, 1.1)
PointInputs == { <<30, 110>>, <<80, 20>>, <<130, 110>> }

\* polygons of 1..MaxPoints points
PolygonInputs == UNION { [1..k -> PointInputs] : k \in 1..MaxPoints }

\* the polygon of Spec, which ends where it starts
SessionPolygons == { << <<30, 110>>, <<80, 20>>, <<30, 110>> >> }

\* the root finder's behaviours: it converges to the best root it finds, or
\* it does not converge and returns a point that is no root (it is given no
\* bounds and its result is not checked)
SolverModes == { "converged", "stuck" }

\* ------------------------------------------------------------------------
\* Good.__init__
\* ------------------------------------------------------------------------
image_size == 3000
drawing_line_width == 6
scale == 1000
size_multiplier == 1
colors == << "blue", "red", "green" >>

\* Image.new("RGBA", (w, h), white): the size and what has been drawn on it
NewImage(w, h) == [ size |-> <<w, h>>, arcs |-> << >>, polygons |-> << >> ]

\* the fields __init__ sets, given the image it created
NewGood(img) ==
    [ circle_center             |-> << img.size[1] \div 2, img.size[2] \div 2 >>,
      starting_point            |-> << >>,
      l                         |-> None,
      radius                    |-> None,
      ending_point              |-> << >>,
      prev_circle_center        |-> << >>,
      prev_radius               |-> None,
      prev_was_negative_radius  |-> FALSE,
      same_direction_as_previous |-> TRUE,
      negative_radius           |-> FALSE ]

\* data[i][j] * self.scale for an input given in 1/InputDenom units
Scaled(x) == (x * scale) \div InputDenom

\* ------------------------------------------------------------------------
\* Good.find_new_circle_center, fsolve
\* ------------------------------------------------------------------------
\* find_new_circle_center with the direction test lost: always the
\* difference form
find_new_circle_center_DifferenceOnly(self, xy) ==
    LET Ox == self.prev_circle_center[1]
        Oy == self.prev_circle_center[2]
        OO_value == self.prev_radius - self.radius
        BO_value == self.radius
        Bx == self.starting_point[1]
        By == self.starting_point[2]
        x == xy[1]
        y == xy[2]
        OO == -(OO_value * OO_value) + Ox * Ox - 2 * Ox * x + x * x
              + Oy * Oy - 2 * Oy * y + y * y
        BO == -(BO_value * BO_value) + Bx * Bx - 2 * Bx * x + x * x
              + By * By - 2 * By * y + y * y
    IN  << OO, BO >>

\* the two residuals (OO, BO) at the point xy
find_new_circle_center(self, xy) ==
    LET Ox == self.prev_circle_center[1]
        Oy == self.prev_circle_center[2]
        OO_value == IF ~self.same_direction_as_previous
                    THEN self.prev_radius + self.radius
                    ELSE self.prev_radius - self.radius
        BO_value == self.radius
        Bx == self.starting_point[1]
        By == self.starting_point[2]
        x == xy[1]
        y == xy[2]
        OO == -(OO_value * OO_value) + Ox * Ox - 2 * Ox * x + x * x
              + Oy * Oy - 2 * Oy * y + y * y
        BO == -(BO_value * BO_value) + Bx * Bx - 2 * Bx * x + x * x
              + By * By - 2 * By * y + y * y
    IN  << OO, BO >>

\* the points the root finder's iteration is taken to end at: the two points
\* on the line through the previous center and the starting point that lie
\* at the new radius from the starting point (where a circle through the
\* starting point touches the previous circle from inside or from outside),
\* and the initial guess
SolverCandidates(self, guess) ==
    LET O == self.prev_circle_center
        B == self.starting_point
        dx == Round((O[1] - B[1]) * self.radius, self.prev_radius)
        dy == Round((O[2] - B[2]) * self.radius, self.prev_radius)
    IN  { << B[1] + dx, B[2] + dy >>, << B[1] - dx, B[2] - dy >>, guess }

\* size of a residual pair
ResidualNorm(r) == Abs(r[1]) + Abs(r[2])

\* the point the root finder returns, for the residual sizes it has seen at
\* the points it tried; mode is how this run of the finder behaves
SolverReturn(norm, guess, mode) ==
    LET best == CHOOSE c \in DOMAIN norm : \A d \in DOMAIN norm : norm[c] <= norm[d]
    IN  IF mode = "converged" THEN best ELSE guess

\* fsolve(self.find_new_circle_center, np.array([0, 0])): scipy's root finder,
\* which only sees the residual function and the initial guess
fsolve(self, guess, mode) ==
    CHOOSE r \in { SolverReturn(norm, guess, mode) :
                     norm \in { [ c \in SolverCandidates(self, guess) |->
                                    ResidualNorm(find_new_circle_center(self, c)) ] } } : TRUE

\* ------------------------------------------------------------------------
\* Good.find_ending_point, Good.find_pie_coordinates
\* ------------------------------------------------------------------------
\* find_ending_point that adds the turn whatever the sign of the radius
find_ending_point_AlwaysAdd(self, angle_rad) ==
    LET angle == angle_rad + TurnRad(self.l, self.radius)
        Bx == self.circle_center[1] + Round(self.radius * Cos(angle), Milli)
        By == self.circle_center[2] + Round(self.radius * Sin(angle), Milli)
    IN  << Bx, By >>

find_ending_point(self, angle_rad) ==
    LET angle == IF self.negative_radius
                 THEN angle_rad - TurnRad(self.l, self.radius)
                 ELSE angle_rad + TurnRad(self.l, self.radius)
        Bx == self.circle_center[1] + Round(self.radius * Cos(angle), Milli)
        By == self.circle_center[2] + Round(self.radius * Sin(angle), Milli)
    IN  << Bx, By >>

find_pie_coordinates(circle_radius, circle_center) ==
    LET Ox == circle_center[1]
        Oy == circle_center[2]
    IN  << Ox - circle_radius, Oy - circle_radius,
           Ox + circle_radius, Oy + circle_radius >>

\* ------------------------------------------------------------------------
\* State
\* ------------------------------------------------------------------------
VARIABLES
    drawing,          \* the Good object's fields (self)
    image,            \* self.image: its size and the commands drawn on it
    files,            \* image.save / image.show calls made, in order
    raised,           \* the exception that ended the program, or "none"
    solver_mode,      \* how the root finder behaves in this session
    call,             \* history: the latest draw_arcs call
    prev_call,        \* history: the draw_arcs call before the latest
    trail,            \* history: the latest operations, newest last
    reset_since_arcs, \* history: a reset came after the latest draw_arcs
    polygon_call,     \* history: the latest draw_polygons call
    n_arcs,           \* arcs handed to draw_arcs so far
    n_resets,         \* reset_image_coordinates calls so far
    n_polygon_calls   \* draw_polygons calls so far

vars == << drawing, image, files, raised, solver_mode, call, prev_call, trail,
           reset_since_arcs, polygon_call, n_arcs, n_resets, n_polygon_calls >>

\* no draw_arcs call yet
NoCall == [ data |-> << >>, seed |-> << >>, after_reset |-> FALSE,
            resolved |-> << >>, solver |-> << >>, arcs |-> << >>,
            raised |-> "none", self |-> << >>,
            arcs_before |-> << >>, files_before |-> << >> ]

NoPolygonCall == [ data |-> << >>, polygons |-> << >>, self |-> << >> ]

\* the latest three operations
Trail(t, op) == IF Len(t) < 3 THEN Append(t, op) ELSE Append(Tail(t), op)

\* ------------------------------------------------------------------------
\* Good.draw_arcs
\* ------------------------------------------------------------------------
\* lines 104-107 with every pass starting like the first
ArcStartingPoint_Restart(self, i) ==
    << self.circle_center[1] - self.radius, self.circle_center[2] >>

\* lines 104-107: where pass i starts drawing
ArcStartingPoint(self, i) ==
    IF i = 0
    THEN << self.circle_center[1] - self.radius, self.circle_center[2] >>
    ELSE self.ending_point

\* lines 90-108 of one pass of the loop: the fields before the angles are
\* computed.  i counts from 0 as in the code; arc is data[i].
ArcLocate(self, arc, i, mode) ==
    LET signed == Scaled(arc[2])
        neg == signed < 0
        s1 == [ self EXCEPT
                  !.prev_radius = self.radius,
                  !.l = Scaled(arc[1]),
                  !.radius = IF neg THEN Abs(signed) ELSE signed,
                  !.negative_radius = neg,
                  !.same_direction_as_previous =
                      IF (self.prev_was_negative_radius /\ neg)
                         \/ (~self.prev_was_negative_radius /\ ~neg)
                      THEN TRUE ELSE FALSE,
                  !.prev_circle_center = self.circle_center ]
        s2 == [ s1 EXCEPT !.starting_point = ArcStartingPoint(s1, i) ]
    IN  IF i = 0 THEN s2
        ELSE CHOOSE r \in { [ s EXCEPT !.circle_center = fsolve(s, << 0, 0 >>, mode) ] :
                               s \in { s2 } } : TRUE

\* line 109 with the arguments of atan2 exchanged
ArcStartAngleRad_Swapped(self) ==
    Atan2(self.starting_point[1] - self.circle_center[1],
          self.starting_point[2] - self.circle_center[2])

\* line 109
ArcStartAngleRad(self) ==
    Atan2(self.starting_point[2] - self.circle_center[2],
          self.starting_point[1] - self.circle_center[1])

\* lines 111-123 without the exchange of the angles for a negative radius
ArcCommand_NoSwap(self, i) ==
    LET starting_angle_deg == RoundDegrees(ArcStartAngleRad(self))
        ending_angle_deg == SpanDegrees(self.l, self.radius) + starting_angle_deg
        pie_coordinates == find_pie_coordinates(self.radius, self.circle_center)
        fill == colors[(i % Len(colors)) + 1]
    IN  [ box |-> pie_coordinates,
          start |-> starting_angle_deg,
          end |-> ending_angle_deg,
          fill |-> fill, width |-> drawing_line_width ]

\* lines 111-123: the d.arc call of one pass, for the located fields
ArcCommand(self, i) ==
    LET starting_angle_deg == RoundDegrees(ArcStartAngleRad(self))
        ending_angle_deg == SpanDegrees(self.l, self.radius) + starting_angle_deg
        pie_coordinates == find_pie_coordinates(self.radius, self.circle_center)
        fill == colors[(i % Len(colors)) + 1]
    IN  IF self.negative_radius
        THEN [ box |-> pie_coordinates,
               start |-> starting_angle_deg - SpanDegrees(self.l, self.radius),
               end |-> starting_angle_deg,
               fill |-> fill, width |-> drawing_line_width ]
        ELSE [ box |-> pie_coordinates,
               start |-> starting_angle_deg,
               end |-> ending_angle_deg,
               fill |-> fill, width |-> drawing_line_width ]

\* lines 114-115 without line 121: the flag is set and never cleared
PrevWasNegativeRadius_NoClear(self) ==
    IF self.negative_radius THEN TRUE ELSE self.prev_was_negative_radius

\* lines 114-115 and 120-121: the flag the next pass compares with
PrevWasNegativeRadius(self) ==
    IF self.negative_radius THEN TRUE ELSE FALSE

\* lines 109-125 of one pass, for the fields located by lines 90-108
ArcFinish(m, located, i) ==
    LET solved == IF i = 0 THEN m.solver
                  ELSE Append(m.solver,
                         [ input |-> [ located EXCEPT
                                         !.circle_center = m.self.circle_center ],
                           output |-> located.circle_center ])
        starting_angle_rad == ArcStartAngleRad(located)
    IN  IF located.radius = 0
        THEN \* line 112: float floor division by zero
             [ m EXCEPT !.self = located, !.solver = solved,
                        !.raised = "ZeroDivisionError" ]
        ELSE
          LET cmd == ArcCommand(located, i)
              flagged == [ located EXCEPT
                             !.prev_was_negative_radius = PrevWasNegativeRadius(located) ]
              ending_point == find_ending_point(flagged, starting_angle_rad)
          IN  [ m EXCEPT
                  !.self = [ flagged EXCEPT !.ending_point = ending_point ],
                  !.image = [ m.image EXCEPT !.arcs = Append(m.image.arcs, cmd) ],
                  !.solver = solved,
                  !.arcs = Append(m.arcs, cmd),
                  !.resolved = Append(m.resolved,
                      [ circleCenter |-> located.circle_center,
                        startingPoint |-> located.starting_point,
                        endingPoint |-> ending_point,
                        startAngleRad |-> starting_angle_rad,
                        radius |-> located.radius ]) ]

\* one pass of the loop (lines 90-125) on m = the object, the image, the
\* exception raised and the history of this call
ArcPass(m, arc, i, mode) ==
    CHOOSE r \in { ArcFinish(m, located, i) :
                      located \in { ArcLocate(m.self, arc, i, mode) } } : TRUE

\* the loop of lines 89-125 from pass i on; an exception ends it
RECURSIVE ArcLoop(_, _, _, _)
ArcLoop(m, data, i, mode) ==
    IF i >= Len(data) \/ m.raised # "none" THEN m
    ELSE CHOOSE r \in { ArcLoop(n, data, i + 1, mode) :
                           n \in { ArcPass(m, data[i + 1], i, mode) } } : TRUE

\* image.resize((w, h)): a copy of the image at the new size
Resize(img, w, h) == [ img EXCEPT !.size = << w, h >> ]

\* lines 88-125: what the loop of draw_arcs(data) makes of the object and
\* the image
DrawArcsResult(self, img, data, mode) ==
    ArcLoop([ self |-> self, image |-> img, raised |-> "none",
              solver |-> << >>, arcs |-> << >>, resolved |-> << >> ],
            data, 0, mode)

\* lines 127-129 run also after an exception (as in a finally block)
ArcFiles_Finally(m, saved) ==
    saved \o << "save drawn_arcs.png", "show drawn_arcs.png" >>

\* lines 127-129, which an exception in the loop skips
ArcFiles(m, saved) ==
    IF m.raised = "none"
    THEN saved \o << "save drawn_arcs.png", "show drawn_arcs.png" >>
    ELSE saved

draw_arcs(data) ==
    \E m \in { DrawArcsResult(drawing, image, data, solver_mode) } :
        /\ drawing' = m.self
        /\ raised' = m.raised
        /\ image' = IF m.raised = "none"
                    THEN Resize(m.image, image_size * size_multiplier,
                                image_size * size_multiplier)
                    ELSE m.image
        /\ files' = ArcFiles(m, files)
        /\ call' = [ data |-> data, seed |-> drawing.circle_center,
                     after_reset |-> reset_since_arcs,
                     resolved |-> m.resolved, solver |-> m.solver,
                     arcs |-> m.arcs, raised |-> m.raised,
                     self |-> << drawing >>,
                     arcs_before |-> image.arcs, files_before |-> files ]
        /\ prev_call' = call
        /\ trail' = Trail(trail, "draw_arcs")
        /\ reset_since_arcs' = FALSE
        /\ n_arcs' = n_arcs + Len(data)
        /\ UNCHANGED << solver_mode, polygon_call, n_resets, n_polygon_calls >>

DrawArcs(inputs, budget) ==
    /\ raised = "none"
    /\ \E data \in ArcLists(inputs, budget - n_arcs) : draw_arcs(data)

\* ------------------------------------------------------------------------
\* Good.draw_polygons
\* ------------------------------------------------------------------------
\* lines 140-146 without the pop of line 146
ResizedPolygon_NoPop(polygon) ==
    [ k \in 1..Len(polygon) |->
        << Scaled(polygon[k][1]), Scaled(polygon[k][2]) >> ]

\* lines 140-146: the vertex list handed to d.polygon for one polygon
ResizedPolygon(polygon) ==
    LET resized_polygon ==
            [ k \in 1..Len(polygon) |->
                << Scaled(polygon[k][1]), Scaled(polygon[k][2]) >> ]
    IN  IF Len(resized_polygon) > 1
           /\ resized_polygon[1] = resized_polygon[Len(resized_polygon)]
        THEN SubSeq(resized_polygon, 1, Len(resized_polygon) - 1)
        ELSE resized_polygon

\* line 147
PolygonCommand(polygon) ==
    [ points |-> ResizedPolygon(polygon), fill |-> "black", outline |-> "black" ]

\* draw_polygons that also puts the circle center back to the canvas center
draw_polygons_Reseeding(data) ==
    LET cmds == [ k \in 1..Len(data) |-> PolygonCommand(data[k]) ]
    IN  /\ image' = [ image EXCEPT !.polygons = image.polygons \o cmds ]
        /\ files' = files \o << "save drawn_polygons.png", "show drawn_polygons.png" >>
        /\ drawing' = [ drawing EXCEPT !.circle_center =
                          << image.size[1] \div 2, image.size[2] \div 2 >> ]
        /\ polygon_call' = [ data |-> data, polygons |-> cmds, self |-> << drawing >> ]
        /\ trail' = Trail(trail, "draw_polygons")
        /\ n_polygon_calls' = n_polygon_calls + 1
        /\ UNCHANGED << raised, solver_mode, call, prev_call,
                        reset_since_arcs, n_arcs, n_resets >>

draw_polygons(data) ==
    LET cmds == [ k \in 1..Len(data) |-> PolygonCommand(data[k]) ]
    IN  /\ image' = [ image EXCEPT !.polygons = image.polygons \o cmds ]
        /\ files' = files \o << "save drawn_polygons.png", "show drawn_polygons.png" >>
        /\ polygon_call' = [ data |-> data, polygons |-> cmds, self |-> << drawing >> ]
        /\ trail' = Trail(trail, "draw_polygons")
        /\ n_polygon_calls' = n_polygon_calls + 1
        /\ UNCHANGED << drawing, raised, solver_mode, call, prev_call,
                        reset_since_arcs, n_arcs, n_resets >>

DrawPolygons(inputs) ==
    /\ raised = "none"
    /\ n_polygon_calls < MaxPolygonCalls
    /\ \E polygon \in inputs : draw_polygons(<< polygon >>)

\* ------------------------------------------------------------------------
\* Good.reset_image_coordinates
\* ------------------------------------------------------------------------
\* reset_image_coordinates that leaves the circle center where it is
reset_image_coordinates_Forgetful ==
    /\ drawing' = drawing
    /\ trail' = Trail(trail, "reset_image_coordinates")
    /\ reset_since_arcs' = TRUE
    /\ n_resets' = n_resets + 1
    /\ UNCHANGED << image, files, raised, solver_mode, call, prev_call,
                    polygon_call, n_arcs, n_polygon_calls >>

reset_image_coordinates ==
    /\ drawing' = [ drawing EXCEPT !.circle_center =
                      << image.size[1] \div 2, image.size[2] \div 2 >> ]
    /\ trail' = Trail(trail, "reset_image_coordinates")
    /\ reset_since_arcs' = TRUE
    /\ n_resets' = n_resets + 1
    /\ UNCHANGED << image, files, raised, solver_mode, call, prev_call,
                    polygon_call, n_arcs, n_polygon_calls >>

ResetImageCoordinates ==
    /\ raised = "none"
    /\ n_resets < MaxResets
    /\ reset_image_coordinates

\* ------------------------------------------------------------------------
\* Specifications
\* ------------------------------------------------------------------------
\* drawing = Good(): the state after construction
Init ==
    /\ image = NewImage(image_size * size_multiplier, image_size * size_multiplier)
    /\ drawing = NewGood(image)
    /\ files = << >>
    /\ raised = "none"
    /\ solver_mode \in SolverModes
    /\ call = NoCall
    /\ prev_call = NoCall
    /\ trail = << >>
    /\ reset_since_arcs = FALSE
    /\ polygon_call = NoPolygonCall
    /\ n_arcs = 0
    /\ n_resets = 0
    /\ n_polygon_calls = 0

\* a session of draw_arcs, draw_polygons and reset_image_coordinates calls in
\* any order; an exception ends it
Next ==
    \/ DrawArcs(ArcInputs, MaxTotalArcs)
    \/ DrawPolygons(SessionPolygons)
    \/ ResetImageCoordinates

Spec == Init /\ [][Next]_vars

\* a session that overlays chains of arcs without a zero radius
ReplayNext ==
    \/ DrawArcs(ReplayArcs, MaxReplayArcs)
    \/ ResetImageCoordinates

SpecReplay == Init /\ [][ReplayNext]_vars

\* a session that draws polygons of every shape
PolygonsNext ==
    \/ DrawPolygons(PolygonInputs)
    \/ ResetImageCoordinates

SpecPolygons == Init /\ [][PolygonsNext]_vars

\* ------------------------------------------------------------------------
\* Properties
\* ------------------------------------------------------------------------
CanvasCenter == << image.size[1] \div 2, image.size[2] \div 2 >>

\* squared distance of two points
Dist2(p, q) == (p[1] - q[1]) * (p[1] - q[1]) + (p[2] - q[2]) * (p[2] - q[2])

\* the first position (from 1) of data whose radius is zero, 0 if there is none
FirstZero(data) ==
    IF \E k \in 1..Len(data) : Scaled(data[k][2]) = 0
    THEN CHOOSE k \in 1..Len(data) :
           /\ Scaled(data[k][2]) = 0
           /\ \A j \in 1..(k - 1) : Scaled(data[j][2]) # 0
    ELSE 0

\* the passes of the latest draw_arcs call that were entered
PassesEntered == IF call.raised = "none" THEN Len(call.data) ELSE FirstZero(call.data)

\* C1: in every draw_arcs call, the starting point used for the arc at
\* position i >= 1 is the ending point computed for arc i-1 of that call,
\* for every input list and every solver output (also in the pass a zero
\* radius ends).
C1_Continuity ==
    /\ \A i \in 2..Len(call.resolved) :
         call.resolved[i].startingPoint = call.resolved[i - 1].endingPoint
    /\ (call.raised # "none" /\ Len(call.resolved) >= 1)
         => drawing.starting_point = call.resolved[Len(call.resolved)].endingPoint

\* an arc after the first was resolved, and it does not start at the left of
\* its own circle, where the first arc of a call starts
C1_Witness ==
    \E i \in 2..Len(call.resolved) :
       call.resolved[i].startingPoint #
         << call.resolved[i].circleCenter[1] - call.resolved[i].radius,
            call.resolved[i].circleCenter[2] >>

\* points at which the residual function is compared with the claim's form
ProbePoints == { << 0, 0 >>, << 7, -3 >>, << 1500, 1500 >>, << 1261, 1519 >> }

\* C2: for the arc at position i >= 1 of a draw_arcs call the residuals handed
\* to the solver are |O-C|^2 - D^2 and |B-C|^2 - Rcur^2, with O and Rprev the
\* resolved center and radius of arc i-1, B the starting point of arc i,
\* Rcur the absolute scaled radius of arc i, and D = Rprev - Rcur when the
\* two arcs have the same sign flag, D = Rprev + Rcur when they differ.
C2_Residuals ==
    \A j \in 1..Len(call.solver) :
       LET inp == call.solver[j].input
           O == call.resolved[j].circleCenter
           Rprev == call.resolved[j].radius
           B == IF j + 1 <= Len(call.resolved)
                THEN call.resolved[j + 1].startingPoint
                ELSE drawing.starting_point
           Rcur == Abs(Scaled(call.data[j + 1][2]))
           D == IF (call.data[j][2] < 0) = (call.data[j + 1][2] < 0)
                THEN Rprev - Rcur
                ELSE Rprev + Rcur
       IN  \A C \in ProbePoints \cup { call.solver[j].output } :
              find_new_circle_center(inp, C)
                = << Dist2(O, C) - D * D, Dist2(B, C) - Rcur * Rcur >>

\* a chain of three arcs was resolved: the sign changes from the first to
\* the second arc and stays from the second to the third
C2_Witness ==
    /\ Len(call.solver) = 2
    /\ Len(call.resolved) = 3
    /\ (call.data[1][2] < 0) # (call.data[2][2] < 0)
    /\ (call.data[2][2] < 0) = (call.data[3][2] < 0)

\* the latest three operations were draw_arcs(L), reset_image_coordinates(),
\* draw_arcs(L) for one non-empty L
Replayed ==
    /\ trail = << "draw_arcs", "reset_image_coordinates", "draw_arcs" >>
    /\ call.data # << >>
    /\ call.data = prev_call.data
    /\ Len(call.resolved) >= 1
    /\ Len(prev_call.resolved) >= 1

\* the first arc of call c has the center and the starting point of a chain
\* seeded at the canvas center
SeededAtCanvasCenter(c) ==
    /\ c.resolved[1].circleCenter = CanvasCenter
    /\ c.resolved[1].startingPoint =
         << CanvasCenter[1] - c.resolved[1].radius, CanvasCenter[2] >>

\* C3 as claimed: draw_arcs(L); reset_image_coordinates(); draw_arcs(L)
\* resolves the first arc of both calls with the canvas center as center and
\* (center.x - radius, center.y) as starting point.
C3_Original ==
    Replayed => (SeededAtCanvasCenter(call) /\ SeededAtCanvasCenter(prev_call))

\* C3 as amended: the second call resolves its first arc with the canvas
\* center and (center.x - radius, center.y) whatever state the first call
\* left; the first call's first arc has the same geometry when the first
\* call itself started with the circle center at the canvas center.
C3_Amended ==
    Replayed =>
       /\ SeededAtCanvasCenter(call)
       /\ (prev_call.seed = CanvasCenter) => SeededAtCanvasCenter(prev_call)
       /\ (prev_call.seed = CanvasCenter)
            => /\ call.resolved[1].circleCenter = prev_call.resolved[1].circleCenter
               /\ call.resolved[1].startingPoint = prev_call.resolved[1].startingPoint

\* the sequence was run from the canvas center and its first call left the
\* circle center somewhere else
C3_Witness ==
    /\ Replayed
    /\ prev_call.seed = CanvasCenter
    /\ Len(prev_call.resolved) >= 2
    /\ prev_call.resolved[Len(prev_call.resolved)].circleCenter # CanvasCenter

\* a polygon whose last point equals its first, and the polygon without its
\* last point
Closed(P) == Len(P) >= 2 /\ P[Len(P)] = P[1]
WithoutLast(P) == SubSeq(P, 1, Len(P) - 1)

\* C4 as claimed: for a polygon P of length >= 2 whose last point equals its
\* first, draw_polygons issues the vertex list it issues for P without its
\* last point, also when that shorter list again ends where it starts.
C4_Original ==
    \A k \in 1..Len(polygon_call.data) :
       Closed(polygon_call.data[k])
         => polygon_call.polygons[k].points
              = ResizedPolygon(WithoutLast(polygon_call.data[k]))

\* C4 as amended: for such a P, draw_polygons issues the scaled points of P
\* without its last point (one point is dropped, never more); that is the
\* vertex list it issues for P without its last point whenever the shorter
\* list has one point or does not end where it starts.
C4_Amended ==
    \A k \in 1..Len(polygon_call.data) :
       LET P == polygon_call.data[k]
           Q == WithoutLast(P)
       IN  Closed(P) =>
             /\ polygon_call.polygons[k].points
                  = [ n \in 1..Len(Q) |-> << (Q[n][1] * scale) \div InputDenom,
                                            (Q[n][2] * scale) \div InputDenom >> ]
             /\ ~Closed(Q) => polygon_call.polygons[k].points = ResizedPolygon(Q)

\* a closed polygon of three points, two of them distinct, was drawn
C4_Witness ==
    \E k \in 1..Len(polygon_call.data) :
       /\ Closed(polygon_call.data[k])
       /\ Len(polygon_call.data[k]) = 3
       /\ polygon_call.data[k][2] # polygon_call.data[k][1]
       /\ Len(polygon_call.polygons[k].points) = 2

\* C5: the seed center of the first arc of a draw_arcs call is the resolved
\* center of the last arc of the latest earlier draw_arcs call, or the canvas
\* center if there was none or a reset came after it; draw_polygons leaves
\* every field of the chain state unchanged.
C5_SeedCarriedOver ==
    /\ call.data # << >> =>
         call.seed = IF prev_call.data = << >> \/ call.after_reset
                     THEN CanvasCenter
                     ELSE prev_call.resolved[Len(prev_call.resolved)].circleCenter
    /\ (trail # << >> /\ trail[Len(trail)] = "draw_polygons")
         => drawing = polygon_call.self[1]

\* a chain was continued from where an earlier chain ended, away from the
\* canvas center, with a draw_polygons call between the two
C5_Witness ==
    /\ trail = << "draw_arcs", "draw_polygons", "draw_arcs" >>
    /\ call.seed # CanvasCenter
    /\ Len(call.resolved) >= 1

C7_FirstArc ==
    (prev_call.data = << >> /\ call.data # << >> /\ call.data[1][2] > 0) =>
       LET r == (call.data[1][2] * 1000) \div InputDenom
           l == (call.data[1][1] * 1000) \div InputDenom
       IN  /\ Len(call.resolved) >= 1
           /\ call.resolved[1].startingPoint = << 1500 - r, 1500 >>
           /\ call.arcs[1].start = 180
           /\ call.arcs[1].end = 180 + (180 * l * PiDen) \div (PiNum * r)
           /\ call.data[1] = << 50, 1 >> =>
                /\ call.resolved[1].startingPoint = << 1490, 1500 >>
                /\ call.arcs[1].end = 3044

\* the first call of a session drew the arc (0.5, 0.01) first
C7_Witness ==
    /\ prev_call.data = << >>
    /\ call.data # << >>
    /\ call.data[1] = << 50, 1 >>
    /\ Len(call.arcs) >= 1
    /\ call.arcs[1].end = 3044

PointAt(res, t) ==
    << res.circleCenter[1] + Round(res.radius * Cos(t), Milli),
       res.circleCenter[2] + Round(res.radius * Sin(t), Milli) >>

\* the unrounded start angle of a resolved arc, and its turn length / radius
StartRad(res) == Atan2(res.startingPoint[2] - res.circleCenter[2],
                       res.startingPoint[1] - res.circleCenter[1])
TurnOf(j) == (Milli * Scaled(call.data[j][1])) \div Abs(Scaled(call.data[j][2]))

\* C9: the ending point handed to the next arc is circleCenter +
\* radius (cos t, sin t) with t = startAngleRad - length / radius for a
\* negative signed radius and t = startAngleRad + length / radius otherwise,
\* startAngleRad being the unrounded start angle of the arc.
C9_EndingPoint ==
    /\ \A j \in 1..Len(call.resolved) :
         LET res == call.resolved[j]
             t == IF call.data[j][2] < 0
                  THEN StartRad(res) - TurnOf(j)
                  ELSE StartRad(res) + TurnOf(j)
         IN  res.endingPoint = PointAt(res, t)
    /\ Len(call.resolved) >= 1
         => drawing.ending_point = call.resolved[Len(call.resolved)].endingPoint

\* an arc of negative radius was followed by another arc, and neither adding
\* the turn nor starting from the drawn (rounded, swapped) angles gives its
\* ending point
C9_Witness ==
    \E j \in 1..(Len(call.resolved) - 1) :
       LET res == call.resolved[j]
           a == RoundDegrees(StartRad(res))
           s == (180 * Scaled(call.data[j][1]) * PiDen)
                  \div (PiNum * Abs(Scaled(call.data[j][2])))
           rad_of_deg(d) == (d * PiNum * Milli) \div (180 * PiDen)
       IN  /\ call.data[j][2] < 0
           /\ res.endingPoint # PointAt(res, StartRad(res) + TurnOf(j))
           /\ res.endingPoint # PointAt(res, rad_of_deg(a - s))
           /\ res.endingPoint # PointAt(res, rad_of_deg(a) - TurnOf(j))

====
